---- MODULE Spec2Model ----
(***************************************************************************)
(* Model of tools/evaluate-sroie.py: the SROIE evaluation script of ocrs.   *)
(* One run of the script is one behaviour: build_ocrs(), then               *)
(* run_global_retrieval_eval(max_samples), statement by statement.          *)
(*                                                                          *)
(* Texts are sequences of one-character strings, so that tokenisation       *)
(* (lower-casing, word runs, the two-character minimum) is computed.        *)
(* Times are whole ticks of time.perf_counter().  Ratios are kept exact as  *)
(* [num, den] and turned into hundredths by the "{:.2f}" conversion.        *)
(***************************************************************************)
EXTENDS Integers, Sequences, FiniteSets, TLC

\* ------------------------------------------------------------------ bounds

\* Largest dataset (number of samples of the "test" split) explored.
MaxDataset == 2
\* Largest --max-samples explored (the smallest is -MaxDataset).
MaxSamples == 3
\* Longest duration of one extraction, in ticks (the shortest is 1).
MaxTime == 2

\* ------------------------------------------------------------------- texts

\* Two words on two lines, one in upper case, and a one-character token.
WordLines == << <<"c", "d">>, <<"A", "b", " ", "5">> >>
\* A line that holds no token of two characters.
DigitLines == << <<"5">> >>

\* The lists of ground-truth lines (el["objects"]["text"]) a sample may carry.
GroundTruthLines == {WordLines, DigitLines}

\* A transcription that matches no ground truth: one known word at most, one
\* word ("xy") that no ground truth holds.
NoiseText == <<"c", "d", " ", "x", "y">>

EmptyText == <<>>

WordChars == {"a", "b", "c", "d", "x", "y", "5"}

\* str.lower() on one character.
Lower(c) ==
    CASE c = "A" -> "a"
      [] c = "B" -> "b"
      [] OTHER -> c

\* ord() of the (lower-cased) characters, for the order of the vocabulary.
Ord(c) ==
    CASE c = "5" -> 53
      [] c = "a" -> 97
      [] c = "b" -> 98
      [] c = "c" -> 99
      [] c = "d" -> 100
      [] c = "x" -> 120
      [] c = "y" -> 121
      [] OTHER -> 0

RECURSIVE JoinLines(_)
\* "\n".join(lines)
JoinLines(lines) ==
    IF lines = <<>> THEN <<>>
    ELSE IF Len(lines) = 1 THEN lines[1]
    ELSE lines[1] \o <<"\n">> \o JoinLines(Tail(lines))

\* A token of CountVectorizer's default token_pattern (?u)\b\w\w+\b is a
\* maximal run of word characters, two characters long at least.
Keep(cur) == IF Len(cur) >= 2 THEN {cur} ELSE {}

RECURSIVE Scan(_, _, _, _)
Scan(text, i, cur, acc) ==
    IF i > Len(text) THEN acc \cup Keep(cur)
    ELSE LET c == Lower(text[i])
         IN  IF c \in WordChars
             THEN Scan(text, i + 1, Append(cur, c), acc)
             ELSE Scan(text, i + 1, <<>>, acc \cup Keep(cur))

\* Every text a run meets: a ground truth, or what an engine printed.
Texts == {EmptyText, NoiseText} \cup {JoinLines(lines) : lines \in GroundTruthLines}

\* The analyzer, tabulated over the texts of a run.
TokenTable == [text \in Texts |-> Scan(text, 1, <<>>, {})]

\* The set of tokens of a document (binary=True: presence only).
Tokens(text) == TokenTable[text]

RECURSIVE TermLess(_, _)
\* s < t as Python compares str: code point by code point, a prefix first.
TermLess(s, t) ==
    IF t = <<>> THEN FALSE
    ELSE IF s = <<>> THEN TRUE
    ELSE IF Ord(s[1]) # Ord(t[1]) THEN Ord(s[1]) < Ord(t[1])
    ELSE TermLess(Tail(s), Tail(t))

RECURSIVE SortTerms(_)
\* sorted(vocabulary): the terms in increasing order, each once.
SortTerms(S) ==
    IF S = {} THEN <<>>
    ELSE LET m == CHOOSE x \in S : \A y \in S \ {x} : TermLess(x, y)
         IN  <<m>> \o SortTerms(S \ {m})

\* Mutation of Slice: the slice is dropped (fit_transform(true_text)).
SliceAll(seq, n) == seq

\* true_text[:max_samples], a Python slice: a negative stop counts from the end.
Slice(seq, n) ==
    IF n >= 0
    THEN SubSeq(seq, 1, IF n < Len(seq) THEN n ELSE Len(seq))
    ELSE SubSeq(seq, 1, IF Len(seq) + n > 0 THEN Len(seq) + n ELSE 0)

\* vectorizer.fit(docs): the vocabulary learnt from docs.
FitVocabulary(docs) ==
    SortTerms(UNION {Tokens(docs[i]) : i \in 1..Len(docs)})

\* vectorizer.transform(docs): one binary row per document over vocab.
Transform(docs, vocab) ==
    [i \in 1..Len(docs) |->
        [j \in 1..Len(vocab) |-> IF vocab[j] \in Tokens(docs[i]) THEN 1 ELSE 0]]

\* Mutation of VocabularyAfterTransform: the predictions are vectorised with
\* fit_transform, which learns their words too.
VocabularyRefit(vocab, docs) ==
    SortTerms({vocab[j] : j \in 1..Len(vocab)}
              \cup UNION {Tokens(docs[i]) : i \in 1..Len(docs)})

\* vectorizer.vocabulary_ after transform(docs): transform only reads it.
VocabularyAfterTransform(vocab, docs) == vocab

\* ----------------------------------------------------------------- metrics

\* The cells (sample, term) of a term-vector matrix.
Cells(X) == {<<i, j>> \in (1..Len(X)) \X (1..Len(X[1])) : TRUE}

\* tp_sum, pred_sum, true_sum of average="micro": pooled over all cells.
TpSum(Xt, Xp) ==
    IF Len(Xt) = 0 THEN 0
    ELSE Cardinality({c \in Cells(Xt) : Xt[c[1]][c[2]] = 1 /\ Xp[c[1]][c[2]] = 1})

Ones(X) ==
    IF Len(X) = 0 THEN 0
    ELSE Cardinality({c \in Cells(X) : X[c[1]][c[2]] = 1})

\* Mutation of PrfDivide: zero_division=1.
PrfDivideOne(num, den) ==
    IF den = 0 THEN [num |-> 1, den |-> 1] ELSE [num |-> num, den |-> den]

\* sklearn's _prf_divide with zero_division="warn": 0.0 and a warning when
\* the denominator is 0, never an exception.
PrfDivide(num, den) ==
    IF den = 0 THEN [num |-> 0, den |-> 1] ELSE [num |-> num, den |-> den]

precision_score(Xt, Xp) == PrfDivide(TpSum(Xt, Xp), Ones(Xp))

recall_score(Xt, Xp) == PrfDivide(TpSum(Xt, Xp), Ones(Xt))

\* Mutation of f1_score: the factor 2 of the harmonic mean is lost.
f1_score_unscaled(Xt, Xp) == PrfDivide(TpSum(Xt, Xp), Ones(Xp) + Ones(Xt))

\* F1 = 2 P R / (P + R) = 2 tp / (pred + true).
f1_score(Xt, Xp) == PrfDivide(2 * TpSum(Xt, Xp), Ones(Xp) + Ones(Xt))

\* check_consistent_length: the metrics raise ValueError unless both
\* matrices have the same number of rows.
ConsistentLength(Xt, Xp) == Len(Xt) = Len(Xp)

\* "{:.2f}".format(q) for q = num/den >= 0, in hundredths: round half to even.
Fmt2(q) ==
    LET n == 100 * q.num
        w == n \div q.den
        r == n % q.den
    IN  IF 2 * r < q.den THEN w
        ELSE IF 2 * r > q.den THEN w + 1
        ELSE IF w % 2 = 0 THEN w ELSE w + 1

\* The line printed for one backend (lines 79-86 and 104-111).
ReportLine(name, elapsed, divisor, Xt, Xp) ==
    [backend   |-> name,
     latency   |-> Fmt2([num |-> elapsed, den |-> divisor]),
     precision |-> Fmt2(precision_score(Xt, Xp)),
     recall    |-> Fmt2(recall_score(Xt, Xp)),
     f1        |-> Fmt2(f1_score(Xt, Xp))]

\* ------------------------------------------------------------------- state

VARIABLES
    dataset,              \* datasets.load_dataset(...): the samples, in order
    max_samples,          \* args.max_samples
    pytesseract,          \* TRUE iff "import pytesseract" succeeded
    pc,                   \* the statement the run is at
    exc,                  \* the exception that ended the run, or "none"
    vocabulary_,          \* vectorizer.vocabulary_, in feature order
    n_fit,                \* how many times the vectorizer was fitted
    X_true,
    idx,                  \* the index enumerate(dataset) yields next
    files,                \* the temp files on disk: files[k] is the image in file k
    tmp_file,             \* the file tmp_file is bound to (0: unbound)
    text_pred_orcs,
    time_orcs,
    X_orcs,
    text_pred_tesseract,
    time_tesseract,
    X_tesseract,
    calls,                \* the extraction calls made, in order
    report                \* the backend lines printed, in order

vars == <<dataset, max_samples, pytesseract, pc, exc, vocabulary_, n_fit, X_true,
          idx, files, tmp_file, text_pred_orcs, time_orcs, X_orcs,
          text_pred_tesseract, time_tesseract, X_tesseract, calls, report>>

\* A dataset of n samples; the image of sample i is identified by i.
DatasetsOfSize(n) ==
    {[i \in 1..n |-> [image |-> i, objects_text |-> f[i]]] :
        f \in [1..n -> GroundTruthLines]}

Datasets == UNION {DatasetsOfSize(n) : n \in 0..MaxDataset}

\* true_text = ["\n".join(el["objects"]["text"]) for el in dataset]
true_text == [i \in 1..Len(dataset) |-> JoinLines(dataset[i].objects_text)]

\* What one extraction may take: the shortest or the longest time.
Durations == {1, MaxTime}

\* What an OCR engine may print for an image: nothing, the exact
\* transcription, or something else.
OcrOutputs(image) == {EmptyText, true_text[image], NoiseText}

Init ==
    /\ dataset \in Datasets
    /\ max_samples \in (0 - MaxDataset)..MaxSamples
    /\ pytesseract \in BOOLEAN
    /\ pc = "build"
    /\ exc = "none"
    /\ vocabulary_ = <<>>
    /\ n_fit = 0
    /\ X_true = <<>>
    /\ idx = 0
    /\ files = <<>>
    /\ tmp_file = 0
    /\ text_pred_orcs = <<>>
    /\ time_orcs = 0
    /\ X_orcs = <<>>
    /\ text_pred_tesseract = <<>>
    /\ time_tesseract = 0
    /\ X_tesseract = <<>>
    /\ calls = <<>>
    /\ report = <<>>

Running(at) == pc = at /\ exc = "none"

\* Mutation of LoopContinues: "if idx > max_samples: break".
LoopContinuesOffByOne == idx < Len(dataset) /\ idx <= max_samples

\* for idx, data_el in enumerate(dataset): if idx >= max_samples: break
LoopContinues == idx < Len(dataset) /\ idx < max_samples

\* ----------------------------------------------------------------- actions

\* build_ocrs(): cargo build succeeds.
BuildOcrs ==
    /\ Running("build")
    /\ pc' = "fit"
    /\ UNCHANGED <<dataset, max_samples, pytesseract, exc, vocabulary_, n_fit,
                   X_true, idx, files, tmp_file, text_pred_orcs, time_orcs, X_orcs,
                   text_pred_tesseract, time_tesseract, X_tesseract, calls, report>>

\* build_ocrs(): cargo build fails; run(check=True) raises.
BuildOcrsFails ==
    /\ Running("build")
    /\ exc' = "CalledProcessError"
    /\ UNCHANGED <<dataset, max_samples, pytesseract, pc, vocabulary_, n_fit,
                   X_true, idx, files, tmp_file, text_pred_orcs, time_orcs, X_orcs,
                   text_pred_tesseract, time_tesseract, X_tesseract, calls, report>>

\* X_true = vectorizer.fit_transform(true_text[:max_samples]); fit raises
\* ValueError ("empty vocabulary") when the documents hold no token.
FitTransform ==
    /\ Running("fit")
    /\ LET docs  == Slice(true_text, max_samples)
           vocab == FitVocabulary(docs)
       IN  IF vocab = <<>>
           THEN /\ exc' = "ValueError"
                /\ UNCHANGED <<pc, vocabulary_, n_fit, X_true>>
           ELSE /\ vocabulary_' = vocab
                /\ n_fit' = n_fit + 1
                /\ X_true' = Transform(docs, vocab)
                /\ pc' = "orcs_loop"
                /\ exc' = exc
    /\ UNCHANGED <<dataset, max_samples, pytesseract, idx, files, tmp_file,
                   text_pred_orcs, time_orcs, X_orcs, text_pred_tesseract,
                   time_tesseract, X_tesseract, calls, report>>

\* One extraction call, as the log keeps it.
Call(name, image, ok) == [backend |-> name, image |-> image, ok |-> ok]

\* tempfile.NamedTemporaryFile(dir=TMP_DIR, suffix=".jpg", delete=False) and
\* data_el["image"].save(tmp_file): a new file holding the image.  Leaving the
\* "with" block closes the file; with delete=False nothing removes it.
FilesAfterSample(fs, image) == Append(fs, image)

\* One iteration of the ocrs loop (lines 64-75): the extraction succeeds.
OrcsIteration ==
    /\ Running("orcs_loop")
    /\ LoopContinues
    /\ LET data_el == dataset[idx + 1]
           name    == Len(files) + 1
       IN  /\ files' = FilesAfterSample(files, data_el.image)
           /\ tmp_file' = name
           /\ \E text \in OcrOutputs(files'[name]), d \in Durations :
                /\ text_pred_orcs' = Append(text_pred_orcs, text)
                /\ time_orcs' = time_orcs + d
                /\ calls' = Append(calls, Call("ORCS", files'[name], TRUE))
    /\ idx' = idx + 1
    /\ UNCHANGED <<dataset, max_samples, pytesseract, pc, exc, vocabulary_, n_fit,
                   X_true, X_orcs, text_pred_tesseract, time_tesseract,
                   X_tesseract, report>>

\* Mutation of OrcsIterationFails: the failed sample is skipped (check=False)
\* and the loop goes on.
OrcsIterationSkips ==
    /\ pc = "orcs_loop" /\ exc = "none"
    /\ idx < Len(dataset) /\ idx < max_samples
    /\ files' = Append(files, dataset[idx + 1].image)
    /\ tmp_file' = Len(files) + 1
    /\ calls' = Append(calls,
           [backend |-> "ORCS", image |-> dataset[idx + 1].image, ok |-> FALSE])
    /\ idx' = idx + 1
    /\ UNCHANGED <<dataset, max_samples, pytesseract, pc, exc, vocabulary_, n_fit,
                   X_true, text_pred_orcs, time_orcs, X_orcs,
                   text_pred_tesseract, time_tesseract, X_tesseract, report>>

\* One iteration of the ocrs loop: target/release/ocrs exits non-zero and
\* run(check=True) raises CalledProcessError out of the function.
OrcsIterationFails ==
    /\ Running("orcs_loop")
    /\ LoopContinues
    /\ LET data_el == dataset[idx + 1]
           name    == Len(files) + 1
       IN  /\ files' = FilesAfterSample(files, data_el.image)
           /\ tmp_file' = name
           /\ calls' = Append(calls, Call("ORCS", files'[name], FALSE))
    /\ exc' = "CalledProcessError"
    /\ UNCHANGED <<dataset, max_samples, pytesseract, pc, vocabulary_, n_fit,
                   X_true, idx, text_pred_orcs, time_orcs, X_orcs,
                   text_pred_tesseract, time_tesseract, X_tesseract, report>>

\* The ocrs loop ends (break, or the dataset is exhausted) and line 77 runs:
\* X_orcs = vectorizer.transform(text_pred_orcs).
OrcsTransform ==
    /\ Running("orcs_loop")
    /\ ~LoopContinues
    /\ X_orcs' = Transform(text_pred_orcs, vocabulary_)
    /\ vocabulary_' = VocabularyAfterTransform(vocabulary_, text_pred_orcs)
    /\ pc' = "orcs_report"
    /\ UNCHANGED <<dataset, max_samples, pytesseract, exc, n_fit, X_true, idx,
                   files, tmp_file, text_pred_orcs, time_orcs,
                   text_pred_tesseract, time_tesseract, X_tesseract, calls, report>>

\* What the number of seconds per image is divided by (lines 81 and 106).
LatencyDivisor == max_samples

\* Mutation of AfterOrcsReport: the "is not None" test is lost.
AfterOrcsReportAlways == "tess_loop"

\* Where the run goes after the ocrs line: "if pytesseract is not None".
AfterOrcsReport == IF pytesseract THEN "tess_loop" ELSE "done"

\* print(" - ORCS: ...") (lines 79-86).  The arguments are evaluated in
\* order: the division first, then the three scores.  When the tesseract
\* loop follows, its enumerate(dataset) starts again at index 0.
OrcsReport ==
    /\ Running("orcs_report")
    /\ IF LatencyDivisor = 0
       THEN /\ exc' = "ZeroDivisionError"
            /\ UNCHANGED <<pc, report, idx>>
       ELSE IF ~ConsistentLength(X_true, X_orcs)
       THEN /\ exc' = "ValueError"
            /\ UNCHANGED <<pc, report, idx>>
       ELSE /\ report' = Append(report,
                    ReportLine("ORCS", time_orcs, LatencyDivisor, X_true, X_orcs))
            /\ pc' = AfterOrcsReport
            /\ idx' = IF pc' = "tess_loop" THEN 0 ELSE idx
            /\ exc' = exc
    /\ UNCHANGED <<dataset, max_samples, pytesseract, vocabulary_, n_fit, X_true,
                   files, tmp_file, text_pred_orcs, time_orcs, X_orcs,
                   text_pred_tesseract, time_tesseract, X_tesseract, calls>>

\* The file pytesseract.image_to_string is handed at line 98: tmp_file.name,
\* the variable the ocrs loop left bound.
TesseractInput == tmp_file

\* One iteration of the tesseract loop (lines 91-100): success.
TesseractIteration ==
    /\ Running("tess_loop")
    /\ LoopContinues
    /\ IF TesseractInput = 0
       THEN /\ exc' = "NameError"
            /\ UNCHANGED <<idx, text_pred_tesseract, time_tesseract, calls>>
       ELSE /\ \E text \in OcrOutputs(files[TesseractInput]), d \in Durations :
                 /\ text_pred_tesseract' = Append(text_pred_tesseract, text)
                 /\ time_tesseract' = time_tesseract + d
                 /\ calls' = Append(calls,
                        Call("Tesseract", files[TesseractInput], TRUE))
            /\ idx' = idx + 1
            /\ exc' = exc
    /\ UNCHANGED <<dataset, max_samples, pytesseract, pc, vocabulary_, n_fit,
                   X_true, files, tmp_file, text_pred_orcs, time_orcs, X_orcs,
                   X_tesseract, report>>

\* One iteration of the tesseract loop: image_to_string raises.
TesseractIterationFails ==
    /\ Running("tess_loop")
    /\ LoopContinues
    /\ TesseractInput # 0
    /\ calls' = Append(calls,
           Call("Tesseract", files[TesseractInput], FALSE))
    /\ exc' = "TesseractError"
    /\ UNCHANGED <<dataset, max_samples, pytesseract, pc, vocabulary_, n_fit,
                   X_true, idx, files, tmp_file, text_pred_orcs, time_orcs, X_orcs,
                   text_pred_tesseract, time_tesseract, X_tesseract, report>>

\* X_tesseract = vectorizer.transform(text_pred_tesseract) (line 102).
TesseractTransform ==
    /\ Running("tess_loop")
    /\ ~LoopContinues
    /\ X_tesseract' = Transform(text_pred_tesseract, vocabulary_)
    /\ vocabulary_' = VocabularyAfterTransform(vocabulary_, text_pred_tesseract)
    /\ pc' = "tess_report"
    /\ UNCHANGED <<dataset, max_samples, pytesseract, exc, n_fit, X_true, idx,
                   files, tmp_file, text_pred_orcs, time_orcs, X_orcs,
                   text_pred_tesseract, time_tesseract, calls, report>>

\* print(" - Tesseract: ...") (lines 104-111), then the function returns.
TesseractReport ==
    /\ Running("tess_report")
    /\ IF LatencyDivisor = 0
       THEN /\ exc' = "ZeroDivisionError"
            /\ UNCHANGED <<pc, report>>
       ELSE IF ~ConsistentLength(X_true, X_tesseract)
       THEN /\ exc' = "ValueError"
            /\ UNCHANGED <<pc, report>>
       ELSE /\ report' = Append(report,
                    ReportLine("Tesseract", time_tesseract, LatencyDivisor,
                               X_true, X_tesseract))
            /\ pc' = "done"
            /\ exc' = exc
    /\ UNCHANGED <<dataset, max_samples, pytesseract, vocabulary_, n_fit, X_true,
                   idx, files, tmp_file, text_pred_orcs, time_orcs, X_orcs,
                   text_pred_tesseract, time_tesseract, X_tesseract, calls>>

Next ==
    \/ BuildOcrs
    \/ BuildOcrsFails
    \/ FitTransform
    \/ OrcsIteration
    \/ OrcsIterationFails
    \/ OrcsTransform
    \/ OrcsReport
    \/ TesseractIteration
    \/ TesseractIterationFails
    \/ TesseractTransform
    \/ TesseractReport

Spec == Init /\ [][Next]_vars

\* ------------------------------------------------------------------ claims

Min(a, b) == IF a < b THEN a ELSE b

\* N of the specification: the number of samples a run is meant to evaluate.
EvaluatedCount == Min(max_samples, Len(dataset))

Backends == {"ORCS", "Tesseract"}

IsOrcs(c) == c.backend = "ORCS"

IsTesseract(c) == c.backend = "Tesseract"

\* The extraction calls made for one backend, in order.
CallsOf(b) == IF b = "ORCS" THEN SelectSeq(calls, IsOrcs) ELSE SelectSeq(calls, IsTesseract)

PredictedOf(b) == IF b = "ORCS" THEN text_pred_orcs ELSE text_pred_tesseract

ElapsedOf(b) == IF b = "ORCS" THEN time_orcs ELSE time_tesseract

\* The loop of backend b has run to its end (no extraction failed).
LoopDone(b) ==
    IF b = "ORCS"
    THEN pc \in {"orcs_report", "tess_loop", "tess_report", "done"}
    ELSE pytesseract /\ pc \in {"tess_report", "done"}

\* The line of backend b was printed.
Printed(b) == \E k \in 1..Len(report) : report[k].backend = b

LineOf(b) == report[CHOOSE k \in 1..Len(report) : report[k].backend = b]

\* C1: for every backend and every i, the i-th extraction call made for that
\* backend receives the image of dataset sample i (both backends are driven
\* over the same samples in the same order).
C1_SameSamplesInSameOrder ==
    \A b \in Backends :
        LET made == CallsOf(b)
        IN  \A i \in 1..Len(made) :
                /\ i <= Len(dataset)
                /\ made[i].image = dataset[i].image

\* C2: the latency printed for a backend is its accumulated extraction time
\* divided by N = min(max_samples, dataset size), the samples evaluated.
C2_LatencyPerEvaluatedSample ==
    \A k \in 1..Len(report) :
        /\ EvaluatedCount >= 1
        /\ report[k].latency =
               Fmt2([num |-> ElapsedOf(report[k].backend), den |-> EvaluatedCount])

\* C3: a sample's temp file is removed when its step ends: never more than
\* one temp file exists, and none exists once the loop has ended, normally or
\* by an extraction failure.
C3_TempFilesRemoved ==
    /\ Len(files) <= 1
    /\ (pc # "orcs_loop" \/ exc # "none") => Len(files) = 0

\* The number of texts a loop that ran to its end has collected.
CollectedCount ==
    IF max_samples < 0 THEN 0 ELSE Min(max_samples, Len(dataset))

TermSet(vocab) == {vocab[j] : j \in 1..Len(vocab)}

\* The tokens of the ground truth of the first n samples.
GroundTruthTokens(n) ==
    UNION {Tokens(JoinLines(dataset[i].objects_text)) : i \in 1..Min(n, Len(dataset))}

\* C5: the vocabulary is built once, from the ground truth of the first
\* max_samples samples only, before the first extraction call; from then on
\* its terms and their order never change, whatever the backends return.
C5_VocabularyBuiltOnceAndFrozen ==
    /\ n_fit <= 1
    /\ calls # <<>> => n_fit = 1
    /\ n_fit = 0 => vocabulary_ = <<>>
    /\ n_fit = 1 =>
          /\ vocabulary_ # <<>>
          /\ \A j \in 1..(Len(vocabulary_) - 1) :
                 TermLess(vocabulary_[j], vocabulary_[j + 1])
          /\ IF max_samples >= 0
             THEN TermSet(vocabulary_) = GroundTruthTokens(max_samples)
             ELSE TermSet(vocabulary_) \subseteq GroundTruthTokens(Len(dataset))

\* C5 witness: a run with both backends ended, and a backend returned a word
\* the ground truth does not hold.
C5_Witness ==
    /\ pc = "done" /\ pytesseract
    /\ \E i \in 1..Len(text_pred_orcs) : text_pred_orcs[i] = NoiseText
    /\ \E i \in 1..Len(text_pred_tesseract) : text_pred_tesseract[i] = NoiseText
    /\ Len(vocabulary_) = 2

\* C6: a failed extraction call is the last call of the run: nothing runs
\* after it (no retry, no next sample, no later backend), no line is printed
\* for its backend, and the run is in an error state.
C6_ExtractionFailureIsFatal ==
    \A k \in 1..Len(calls) :
        ~calls[k].ok =>
            /\ k = Len(calls)
            /\ exc \in {"CalledProcessError", "TesseractError"}
            /\ pc # "done"
            /\ ~Printed(calls[k].backend)
            /\ ~ENABLED Next

\* C6 witness: the second ocrs extraction failed, with tesseract installed.
C6_Witness ==
    /\ pytesseract
    /\ Len(calls) = 2
    /\ calls[1].ok /\ ~calls[2].ok /\ calls[2].backend = "ORCS"
    /\ exc = "CalledProcessError"

\* The ocrs line as the run's inputs and the ocrs loop's results alone
\* determine it; whether pytesseract is installed is no part of it.
PrimaryLine ==
    [backend   |-> "ORCS",
     latency   |-> Fmt2([num |-> time_orcs, den |-> max_samples]),
     precision |-> Fmt2(precision_score(X_true, X_orcs)),
     recall    |-> Fmt2(recall_score(X_true, X_orcs)),
     f1        |-> Fmt2(f1_score(X_true, X_orcs))]

\* C7: without the reference backend the run is no error: no call is made
\* and no line printed for it, and the run is done once the ocrs line is
\* printed; the ocrs line is the same whether or not the reference backend is
\* installed; the reference backend's line, if any, follows the ocrs line.
C7_OptionalBackendSkipped ==
    /\ ~pytesseract =>
          /\ CallsOf("Tesseract") = <<>>
          /\ ~Printed("Tesseract")
          /\ pc \notin {"tess_loop", "tess_report"}
          /\ exc \notin {"TesseractError", "NameError"}
          /\ Len(report) = 1 => (pc = "done" /\ exc = "none")
    /\ Len(report) >= 1 => report[1] = PrimaryLine
    /\ \A k \in 1..Len(report) :
          report[k].backend = "Tesseract" => (k = 2 /\ report[1].backend = "ORCS")
    /\ Len(report) <= 2

\* C7 witness: a run without the reference backend ended with the ocrs line
\* alone, after two samples.
C7_Witness ==
    /\ ~pytesseract
    /\ pc = "done" /\ exc = "none"
    /\ Len(report) = 1
    /\ Len(text_pred_orcs) = 2

\* Backend b returned exactly the ground truth for every sample it evaluated.
ExactPredictions(b) ==
    /\ Len(PredictedOf(b)) <= Len(dataset)
    /\ \A i \in 1..Len(PredictedOf(b)) : PredictedOf(b)[i] = true_text[i]

\* C8: if a backend's predicted text equals the ground truth for every
\* evaluated sample, its printed precision, recall and F1 are all 1.00.
C8_ExactPredictionsScoreOne ==
    \A b \in Backends :
        (Printed(b) /\ ExactPredictions(b)) =>
            /\ LineOf(b).precision = 100
            /\ LineOf(b).recall = 100
            /\ LineOf(b).f1 = 100

\* C8 witness: both backends returned the exact ground truth of two samples
\* and both lines are printed.
C8_Witness ==
    /\ pc = "done"
    /\ Len(report) = 2
    /\ Len(text_pred_orcs) = 2 /\ Len(text_pred_tesseract) = 2
    /\ ExactPredictions("ORCS") /\ ExactPredictions("Tesseract")

\* Backend b evaluated at least one sample and returned "" for every one.
EmptyPredictions(b) ==
    /\ Len(PredictedOf(b)) >= 1
    /\ \A i \in 1..Len(PredictedOf(b)) : PredictedOf(b)[i] = EmptyText

\* The statement that prints the line of backend b.
ReportPc(b) == IF b = "ORCS" THEN "orcs_report" ELSE "tess_report"

\* C9: if a backend returns the empty string for every evaluated sample, the
\* print of its line raises nothing, and the line shows precision 0.00,
\* recall 0.00 and F1 0.00.
C9_EmptyPredictionsScoreZero ==
    \A b \in Backends :
        (LoopDone(b) /\ EmptyPredictions(b)) =>
            /\ pc = ReportPc(b) => (exc = "none" /\ ENABLED Next)
            /\ pc # ReportPc(b) =>
                  /\ Printed(b)
                  /\ LineOf(b).precision = 0
                  /\ LineOf(b).recall = 0
                  /\ LineOf(b).f1 = 0

\* C9 witness: both backends returned "" for two samples and both lines are
\* printed.
C9_Witness ==
    /\ pc = "done"
    /\ Len(report) = 2
    /\ Len(text_pred_orcs) = 2 /\ Len(text_pred_tesseract) = 2
    /\ EmptyPredictions("ORCS") /\ EmptyPredictions("Tesseract")

\* The term vector of one text over the vocabulary.
Vector(text) ==
    [j \in 1..Len(vocabulary_) |-> IF vocabulary_[j] \in Tokens(text) THEN 1 ELSE 0]

\* The metrics of backend b are about to be computed.
AtMetrics(b) == pc = ReportPc(b) /\ exc = "none"

XOf(b) == IF b = "ORCS" THEN X_orcs ELSE X_tesseract

====
